---- MODULE Spec2Model ----
(***************************************************************************)
(* base-padthai: a base-48 codec over Thai code points, with a Buginese    *)
(* nibble pair for a trailing odd byte (package padthai).                  *)
(*                                                                         *)
(* A Go string is modelled as the sequence of its UTF-8 bytes, a []byte as *)
(* a sequence of 0..255, a rune as its code point.  Go indexes from 0; the *)
(* operator At keeps the source's indices.                                 *)
(***************************************************************************)
EXTENDS Integers, Sequences, FiniteSets

VARIABLES
  ThaiAlphabet,      \* var ThaiAlphabet [Base]rune
  BugineseAlphabet,  \* var BugineseAlphabet [PadBase]rune
  thaiIndex,         \* var thaiIndex map[rune]int
  pc,                \* "boot" before the package's init() has run, "ready" after
  call,              \* the last call made: "none", "Encode", "Decode", "Pipe", "Wrap"
  data,              \* Encode's argument
  encoded,           \* Encode's result
  s,                 \* Decode's argument
  out,               \* Decode's []byte result
  err                \* Decode's error result

vars == <<ThaiAlphabet, BugineseAlphabet, thaiIndex, pc, call, data, encoded, s, out, err>>

-----------------------------------------------------------------------------
\* Package constants.

thaiStart == 3585
thaiEnd == 3631
thaiBaht == 3647
bugineseStart == 6656
bugineseEnd == 6671
Base == 48
PadBase == 16

\* Bounds of the model.
MaxDataLen == 4
MaxTokens == 4

-----------------------------------------------------------------------------
\* Go values.

At(seq, i) == seq[i + 1]

Slice(seq, lo, hi) == SubSeq(seq, lo + 1, hi)

RuneError == 65533

\* The UTF-8 bytes strings.Builder.WriteRune appends for rune r.
WriteRune(r) ==
  IF r < 0 \/ r > 1114111 \/ (r >= 55296 /\ r <= 57343)
    THEN <<239, 191, 189>>
  ELSE IF r < 128
    THEN <<r>>
  ELSE IF r < 2048
    THEN <<192 + (r \div 64), 128 + (r % 64)>>
  ELSE IF r < 65536
    THEN <<224 + (r \div 4096), 128 + ((r \div 64) % 64), 128 + (r % 64)>>
  ELSE <<240 + (r \div 262144), 128 + ((r \div 4096) % 64),
         128 + ((r \div 64) % 64), 128 + (r % 64)>>

IsCont(b) == b >= 128 /\ b <= 191

\* One step of `for _, r := range str`: the rune that starts at byte offset i
\* and its width; a byte that starts no valid encoding is U+FFFD, width 1.
DecodeRuneAt(str, i) ==
  LET n == Len(str) - i
      b0 == At(str, i)
      b1 == At(str, i + 1)
      b2 == At(str, i + 2)
      b3 == At(str, i + 3)
      lo2 == IF b0 = 224 THEN 160 ELSE IF b0 = 240 THEN 144 ELSE 128
      hi2 == IF b0 = 237 THEN 159 ELSE IF b0 = 244 THEN 143 ELSE 191
      bad == [rune |-> RuneError, width |-> 1]
  IN  IF b0 < 128 THEN [rune |-> b0, width |-> 1]
      ELSE IF b0 >= 194 /\ b0 <= 223
        THEN IF n >= 2 /\ IsCont(b1)
               THEN [rune |-> (b0 - 192) * 64 + (b1 - 128), width |-> 2]
               ELSE bad
      ELSE IF b0 >= 224 /\ b0 <= 239
        THEN IF n >= 3 /\ b1 >= lo2 /\ b1 <= hi2 /\ IsCont(b2)
               THEN [rune |-> (b0 - 224) * 4096 + (b1 - 128) * 64 + (b2 - 128),
                     width |-> 3]
               ELSE bad
      ELSE IF b0 >= 240 /\ b0 <= 244
        THEN IF n >= 4 /\ b1 >= lo2 /\ b1 <= hi2 /\ IsCont(b2) /\ IsCont(b3)
               THEN [rune |-> (b0 - 240) * 262144 + (b1 - 128) * 4096
                                + (b2 - 128) * 64 + (b3 - 128),
                     width |-> 4]
               ELSE bad
      ELSE bad

RECURSIVE RangeFrom(_, _)
RangeFrom(str, i) ==
  IF i >= Len(str) THEN <<>>
  ELSE LET d == DecodeRuneAt(str, i)
       IN  <<d.rune>> \o RangeFrom(str, i + d.width)

\* []rune(str): the runes `range str` yields, in order.
Runes(str) == RangeFrom(str, 0)

RECURSIVE WriteRunes(_)
WriteRunes(rs) ==
  IF rs = <<>> THEN <<>> ELSE WriteRune(Head(rs)) \o WriteRunes(Tail(rs))

-----------------------------------------------------------------------------
\* func init()

\* The loop stopping one rune early (r < thaiEnd).
initThaiAlphabetShort ==
  LET n == thaiEnd - thaiStart
  IN  [idx \in 0..(Base - 1) |->
         IF idx < n THEN thaiStart + idx
         ELSE IF idx = n THEN thaiBaht
         ELSE 0]

\* The first loop and the assignment after it: r runs thaiStart..thaiEnd with
\* idx counting from 0, then ThaiAlphabet[idx] = thaiBaht; other slots keep 0.
initThaiAlphabet ==
  LET n == thaiEnd - thaiStart + 1
  IN  [idx \in 0..(Base - 1) |->
         IF idx < n THEN thaiStart + idx
         ELSE IF idx = n THEN thaiBaht
         ELSE 0]

\* thaiIndex[r] = i for i, r := range ThaiAlphabet: a later i overwrites.
initThaiIndex(alphabet) ==
  [r \in {alphabet[i] : i \in DOMAIN alphabet} |->
     CHOOSE i \in DOMAIN alphabet :
       /\ alphabet[i] = r
       /\ \A j \in DOMAIN alphabet : alphabet[j] = r => j <= i]

initBugineseAlphabet == [i \in 0..(PadBase - 1) |-> bugineseStart + i]

isThai(r) == r \in DOMAIN thaiIndex

isBuginese(r) == r >= bugineseStart /\ r <= bugineseEnd

-----------------------------------------------------------------------------
\* func Encode(data []byte) string

\* The pair read low byte first.
PairValueLittleEndian(b0, b1) == b1 * 256 + b0

\* val := uint(data[i])<<8 | uint(data[i+1])
PairValue(b0, b1) == b0 * 256 + b1

\* d2 := val % Base; val /= Base; d1 := val % Base; val /= Base; d0 := val
Digits(val) ==
  LET d2 == val % Base
      v1 == val \div Base
      d1 == v1 % Base
      v2 == v1 \div Base
      d0 == v2
  IN  <<d0, d1, d2>>

\* The three sb.WriteRune(ThaiAlphabet[d]) calls of one loop pass.
EncodePair(b0, b1) ==
  LET d == Digits(PairValue(b0, b1))
  IN  WriteRune(ThaiAlphabet[d[1]]) \o WriteRune(ThaiAlphabet[d[2]])
        \o WriteRune(ThaiAlphabet[d[3]])

\* The nibbles written with the Thai table.
EncodeTailThai(b) ==
  LET hi == (b \div 16) % 16
      lo == b % 16
  IN  WriteRune(ThaiAlphabet[hi]) \o WriteRune(ThaiAlphabet[lo])

\* hi := (b >> 4) & 0x0f; lo := b & 0x0f; two WriteRune(BugineseAlphabet[..])
EncodeTail(b) ==
  LET hi == (b \div 16) % 16
      lo == b % 16
  IN  WriteRune(BugineseAlphabet[hi]) \o WriteRune(BugineseAlphabet[lo])

\* for i+1 < len(data) { ...; i += 2 }: the builder and i when the loop ends.
RECURSIVE EncodeLoop(_, _, _)
EncodeLoop(d, i, sb) ==
  IF i + 1 < Len(d)
    THEN EncodeLoop(d, i + 2, sb \o EncodePair(At(d, i), At(d, i + 1)))
    ELSE [i |-> i, sb |-> sb]

Encode(d) ==
  IF Len(d) = 0 THEN <<>>
  ELSE LET l == EncodeLoop(d, 0, <<>>)
       IN  IF l.i < Len(d) THEN l.sb \o EncodeTail(At(d, l.i)) ELSE l.sb

-----------------------------------------------------------------------------
\* func Decode(s string) ([]byte, error)

\* The errors, by the fmt.Errorf that builds them and its arguments.
NoError == [kind |-> "nil"]

ErrInvalidLength(n) == [kind |-> "InvalidLength", count |-> n]

ErrInvalidCharacter(r, pos) == [kind |-> "InvalidCharacter", rune |-> r, pos |-> pos]

ErrValueOutOfRange(val, pos) == [kind |-> "ValueOutOfRange", val |-> val, pos |-> pos]

ErrInvalidPadding == [kind |-> "InvalidPadding"]

\* return out, err: the bytes decoded so far returned with the error.
FailKeep(acc, e) == [bytes |-> acc, err |-> e]

\* return nil, err: the bytes appended to out so far are dropped.
Fail(acc, e) == [bytes |-> <<>>, err |-> e]

\* The switch without '\r'.
isSkippedNoCR(r) == r \in {32, 10, 9}

\* case ' ', '\n', '\r', '\t': continue
isSkipped(r) == r \in {32, 10, 13, 9}

\* The runes collected by the first loop.
Collect(str) == SelectSeq(Runes(str), LAMBDA r : ~isSkipped(r))

\* The two isBuginese tests joined by || instead of &&.
trailingBugineseEither(runes) ==
  IF /\ Len(runes) >= 2
     /\ \/ isBuginese(At(runes, Len(runes) - 1))
        \/ isBuginese(At(runes, Len(runes) - 2))
    THEN 2
    ELSE 0

trailingBuginese(runes) ==
  IF /\ Len(runes) >= 2
     /\ isBuginese(At(runes, Len(runes) - 1))
     /\ isBuginese(At(runes, Len(runes) - 2))
    THEN 2
    ELSE 0

\* if len(thaiRunes)%3 != 0
badLength(thaiRunes) == Len(thaiRunes) % 3 # 0

\* pos left at i, the triplet's start.
invalidPosStart(i, ok0, ok1) == i

\* pos := i; if !ok0 {} else if !ok1 { pos = i + 1 } else { pos = i + 2 }
invalidPos(i, ok0, ok1) == IF ~ok0 THEN i ELSE IF ~ok1 THEN i + 1 ELSE i + 2

\* The first digit weighted by Base once.
TripletValueFlat(d0, d1, d2) == d0 * Base + d1 * Base + d2

\* val := uint(d0)*Base*Base + uint(d1)*Base + uint(d2)
TripletValue(d0, d1, d2) == d0 * Base * Base + d1 * Base + d2

\* The range check left out.
exceeds16Never(val) == FALSE

\* if val > 0xFFFF
exceeds16(val) == val > 65535

\* for i := 0; i+2 < len(thaiRunes); i += 3 { ... }
RECURSIVE DecodeTriplets(_, _, _)
DecodeTriplets(thaiRunes, i, acc) ==
  IF ~(i + 2 < Len(thaiRunes)) THEN [bytes |-> acc, err |-> NoError]
  ELSE
    LET r0 == At(thaiRunes, i)
        r1 == At(thaiRunes, i + 1)
        r2 == At(thaiRunes, i + 2)
        ok0 == r0 \in DOMAIN thaiIndex
        ok1 == r1 \in DOMAIN thaiIndex
        ok2 == r2 \in DOMAIN thaiIndex
        pos == invalidPos(i, ok0, ok1)
        val == TripletValue(thaiIndex[r0], thaiIndex[r1], thaiIndex[r2])
    IN  IF ~ok0 \/ ~ok1 \/ ~ok2
          THEN Fail(acc, ErrInvalidCharacter(At(thaiRunes, pos), pos))
        ELSE IF exceeds16(val)
          THEN Fail(acc, ErrValueOutOfRange(val, i))
        ELSE DecodeTriplets(thaiRunes, i + 3,
                            acc \o <<(val \div 256) % 256, val % 256>>)

\* The two nibbles taken in the other order.
DecodePaddingSwapped(bugRunes, acc) ==
  LET hi == (At(bugRunes, 1) - bugineseStart) % 256
      lo == (At(bugRunes, 0) - bugineseStart) % 256
  IN  IF hi > 15 \/ lo > 15
        THEN Fail(acc, ErrInvalidPadding)
        ELSE [bytes |-> acc \o <<(hi * 16 + lo) % 256>>, err |-> NoError]

\* hi := byte(bugRunes[0] - bugineseStart); lo likewise; out = append(out, hi<<4|lo)
DecodePadding(bugRunes, acc) ==
  LET hi == (At(bugRunes, 0) - bugineseStart) % 256
      lo == (At(bugRunes, 1) - bugineseStart) % 256
  IN  IF hi > 15 \/ lo > 15
        THEN Fail(acc, ErrInvalidPadding)
        ELSE [bytes |-> acc \o <<(hi * 16 + lo) % 256>>, err |-> NoError]

\* The triplets decoded before the length is checked.
DecodeTripletsFirst(str) ==
  LET runes == Collect(str)
      tb == trailingBuginese(runes)
      thaiRunes == Slice(runes, 0, Len(runes) - tb)
      bugRunes == Slice(runes, Len(runes) - tb, Len(runes))
      tri == DecodeTriplets(thaiRunes, 0, <<>>)
  IN  IF Len(runes) = 0 THEN [bytes |-> <<>>, err |-> NoError]
      ELSE IF tri.err # NoError THEN tri
      ELSE IF badLength(thaiRunes)
        THEN Fail(<<>>, ErrInvalidLength(Len(thaiRunes)))
      ELSE IF tb = 2 THEN DecodePadding(bugRunes, tri.bytes)
      ELSE tri

Decode(str) ==
  LET runes == Collect(str)
      tb == trailingBuginese(runes)
      thaiRunes == Slice(runes, 0, Len(runes) - tb)
      bugRunes == Slice(runes, Len(runes) - tb, Len(runes))
      tri == DecodeTriplets(thaiRunes, 0, <<>>)
  IN  IF Len(runes) = 0 THEN [bytes |-> <<>>, err |-> NoError]
      ELSE IF badLength(thaiRunes)
        THEN Fail(<<>>, ErrInvalidLength(Len(thaiRunes)))
      ELSE IF tri.err # NoError THEN tri
      ELSE IF tb = 2 THEN DecodePadding(bugRunes, tri.bytes)
      ELSE tri

-----------------------------------------------------------------------------
\* The calls made on the package.

ByteSamples == {0, 1, 128, 255}

\* Encode's arguments: every byte sequence of up to MaxDataLen sample bytes,
\* every single byte and every pair of bytes.
SampleData == UNION {[1..n -> ByteSamples] : n \in 0..MaxDataLen}

AllShort == UNION {[1..n -> 0..255] : n \in 1..2}

\* Pieces of Decode's arguments, as runes: Thai digits 0 and 47, a Buginese
\* nibble, 'A' (of neither alphabet), the skipped runes ' ' and '\r', the
\* triplet of value 65535 and the triplet of value 65536.
TokenSamples ==
  { <<thaiStart>>, <<thaiBaht>>, <<bugineseEnd>>, <<65>>,
    <<32>>, <<13>>,
    <<thaiStart + 28, thaiStart + 21, thaiStart + 15>>,
    <<thaiStart + 28, thaiStart + 21, thaiStart + 16>> }

RECURSIVE Flatten(_)
Flatten(toks) == IF toks = <<>> THEN <<>> ELSE Head(toks) \o Flatten(Tail(toks))

SampleTexts ==
  {WriteRunes(Flatten(toks)) :
     toks \in UNION {[1..n -> TokenSamples] : n \in 0..MaxTokens}}

\* The runes rs with the rune w put in before index p.
InsertAt(rs, p, w) == Slice(rs, 0, p) \o <<w>> \o Slice(rs, p, Len(rs))

Init ==
  /\ ThaiAlphabet = [i \in 0..(Base - 1) |-> 0]
  /\ BugineseAlphabet = [i \in 0..(PadBase - 1) |-> 0]
  /\ thaiIndex = <<>>
  /\ pc = "boot"
  /\ call = "none"
  /\ data = <<>>
  /\ encoded = <<>>
  /\ s = <<>>
  /\ out = <<>>
  /\ err = NoError

\* init() runs once, before any call.
init ==
  /\ pc = "boot"
  /\ pc' = "ready"
  /\ ThaiAlphabet' = initThaiAlphabet
  /\ thaiIndex' = initThaiIndex(initThaiAlphabet)
  /\ BugineseAlphabet' = initBugineseAlphabet
  /\ UNCHANGED <<call, data, encoded, s, out, err>>

EncodeCall ==
  /\ pc = "ready"
  /\ call = "none"
  /\ \E d \in SampleData \cup AllShort :
       /\ call' = "Encode"
       /\ data' = d
       /\ encoded' = Encode(d)
  /\ UNCHANGED <<ThaiAlphabet, BugineseAlphabet, thaiIndex, pc, s, out, err>>

\* decoded, err := Decode(str), made as the call named c.
DecodeInto(c, str) ==
  LET r == Decode(str)
  IN  /\ call' = c
      /\ s' = str
      /\ out' = r.bytes
      /\ err' = r.err
      /\ UNCHANGED <<ThaiAlphabet, BugineseAlphabet, thaiIndex, pc, data, encoded>>

DecodeCall ==
  /\ pc = "ready"
  /\ call = "none"
  /\ \E str \in SampleTexts : DecodeInto("Decode", str)

\* decoded, err := Decode(encoded)
DecodeEncoded ==
  /\ pc = "ready"
  /\ call = "Encode"
  /\ DecodeInto("Pipe", encoded)

\* Decode of Encode's result with a skipped rune put in at one place.
DecodeWrapped ==
  /\ pc = "ready"
  /\ call = "Encode"
  /\ data \in SampleData
  /\ LET runes == Runes(encoded)
     IN  \E p \in 0..Len(runes), w \in {32, 10, 13, 9} :
           DecodeInto("Wrap", WriteRunes(InsertAt(runes, p, w)))

\* The caller is done with the results; the next call starts afresh.
Done ==
  /\ pc = "ready"
  /\ call # "none"
  /\ call' = "none"
  /\ data' = <<>>
  /\ encoded' = <<>>
  /\ s' = <<>>
  /\ out' = <<>>
  /\ err' = NoError
  /\ UNCHANGED <<ThaiAlphabet, BugineseAlphabet, thaiIndex, pc>>

Next ==
  \/ init
  \/ EncodeCall
  \/ DecodeCall
  \/ DecodeEncoded
  \/ DecodeWrapped
  \/ Done

Spec == Init /\ [][Next]_vars

-----------------------------------------------------------------------------
\* The vocabulary of the properties, stated without the package's tables.

\* The Primary (Thai) Alphabet: U+0E01..U+0E2F at 0..46, U+0E3F at 47.
Primary(i) == IF i < 47 THEN 3585 + i ELSE 3647

PrimarySet == {Primary(i) : i \in 0..47}

\* The index of a Primary code point.
PrimaryDigit(r) == IF r = 3647 THEN 47 ELSE r - 3585

\* The Padding (Buginese) Alphabet: U+1A00 + index, 0..15.
Padding(i) == 6656 + i

PaddingSet == {Padding(i) : i \in 0..15}

\* Space, tab, newline, carriage return.
Whitespace == {32, 9, 10, 13}

\* The code points of a text other than whitespace.
Stripped(str) == SelectSeq(Runes(str), LAMBDA r : r \notin Whitespace)

HasPaddingPair(w) ==
  /\ Len(w) >= 2
  /\ w[Len(w)] \in PaddingSet
  /\ w[Len(w) - 1] \in PaddingSet

\* The primary group of a whitespace-stripped sequence.
PrimaryGroup(w) == IF HasPaddingPair(w) THEN SubSeq(w, 1, Len(w) - 2) ELSE w

\* Triplet k (from 0) of a primary group: its runes and its combined value.
TripletAt(g, k) == SubSeq(g, 3 * k + 1, 3 * k + 3)

AllPrimary(rs) == \A i \in DOMAIN rs : rs[i] \in PrimarySet

ValueOf(tr) ==
  PrimaryDigit(tr[1]) * 48 * 48 + PrimaryDigit(tr[2]) * 48 + PrimaryDigit(tr[3])

ValidTriplet(tr) == AllPrimary(tr) /\ ValueOf(tr) <= 65535

Decoding == call \in {"Decode", "Pipe", "Wrap"}

-----------------------------------------------------------------------------
\* C1: decoding what Encode returned for any byte sequence gives no error
\* and the very bytes that were encoded.
RoundTrip == call = "Pipe" => (err = NoError /\ out = data)

RoundTripWitness ==
  /\ call = "Pipe"
  /\ data = <<255, 255, 128>>
  /\ s = encoded
  /\ out = <<255, 255, 128>>

\* C2: a text whose whitespace-free form decodes without error decodes to
\* the same bytes, without error, however much whitespace it holds; a text
\* of whitespace alone decodes to no bytes.
WhitespaceTolerance ==
  Decoding =>
    LET t == WriteRunes(Stripped(s))
        ref == Decode(t)
    IN  /\ ref.err = NoError => (err = NoError /\ out = ref.bytes)
        /\ Stripped(s) = <<>> => (err = NoError /\ out = <<>>)

\* A carriage return between the two padding code points of a wrapped text.
WhitespaceToleranceWitness ==
  /\ call = "Wrap"
  /\ data = <<0, 1, 255>>
  /\ Len(Runes(s)) = 6
  /\ Runes(s)[5] = 13
  /\ err = NoError
  /\ out = data

\* C3: n bytes encode to (n/2)*3 Primary code points when n is even, and to
\* ((n-1)/2)*3 Primary code points followed by 2 Padding code points when n
\* is odd; no bytes encode to the empty string.
FixedExpansion ==
  call = "Encode" =>
    LET n == Len(data)
        rs == Runes(encoded)
    IN  /\ n = 0 => encoded = <<>>
        /\ n % 2 = 0 => (Len(rs) = (n \div 2) * 3 /\ AllPrimary(rs))
        /\ n % 2 = 1 =>
             /\ Len(rs) = ((n - 1) \div 2) * 3 + 2
             /\ AllPrimary(SubSeq(rs, 1, Len(rs) - 2))
             /\ rs[Len(rs) - 1] \in PaddingSet
             /\ rs[Len(rs)] \in PaddingSet

FixedExpansionWitness ==
  /\ call = "Encode"
  /\ Len(data) = 3
  /\ Len(Runes(encoded)) = 5
  /\ Runes(encoded)[4] \in PaddingSet

\* C4: the k-th byte pair (b0, b1), v = b0*256 + b1, is encoded at positions
\* 3k, 3k+1, 3k+2 as the Primary code points of v div 2304, (v div 48) mod 48
\* and v mod 48, the first within 0..28; a last odd byte b comes after all
\* triplets as the Padding code points of b >> 4 and b & 0xF; nothing else
\* is emitted.
ReferenceEncoding ==
  call = "Encode" =>
    LET n == Len(data)
        pairs == n \div 2
        rs == Runes(encoded)
    IN  /\ Len(rs) = 3 * pairs + 2 * (n % 2)
        /\ \A k \in 0..(pairs - 1) :
             LET v == data[2 * k + 1] * 256 + data[2 * k + 2]
             IN  /\ (v \div 2304) \in 0..28
                 /\ rs[3 * k + 1] = Primary(v \div 2304)
                 /\ rs[3 * k + 2] = Primary((v \div 48) % 48)
                 /\ rs[3 * k + 3] = Primary(v % 48)
        /\ n % 2 = 1 =>
             /\ rs[3 * pairs + 1] = Padding(data[n] \div 16)
             /\ rs[3 * pairs + 2] = Padding(data[n] % 16)

ReferenceEncodingWitness ==
  /\ call = "Encode"
  /\ data = <<255, 255, 128>>
  /\ Runes(encoded) = <<Primary(28), Primary(21), Primary(15), Padding(8), Padding(0)>>

\* C5: when the primary group (the whitespace-stripped sequence less a
\* trailing pair of Padding code points) has a length that is no multiple of
\* 3, Decode fails with the invalid-length error carrying that length,
\* whatever the group's code points are.
InvalidLength ==
  Decoding =>
    LET g == PrimaryGroup(Stripped(s))
    IN  Len(g) % 3 # 0 => (err = ErrInvalidLength(Len(g)) /\ out = <<>>)

\* One code point of neither alphabet, alone: the length is reported, not
\* the character.
InvalidLengthWitness ==
  /\ call = "Decode"
  /\ Stripped(s) = <<65>>
  /\ err = ErrInvalidLength(1)

\* The first code point of the primary group g that is not Primary, as an
\* index from 0 (Len(g) when there is none).
FirstInvalid(g) ==
  IF AllPrimary(g) THEN Len(g)
  ELSE (CHOOSE i \in DOMAIN g :
          g[i] \notin PrimarySet /\ \A j \in 1..(i - 1) : g[j] \in PrimarySet) - 1

\* C6: when the primary group's length is a multiple of 3, it holds a code
\* point that is not Primary, and no triplet before that code point's has a
\* value above 65535, Decode fails with the invalid-character error carrying
\* the first such code point and its index in the whitespace-stripped
\* sequence.
InvalidCharacter ==
  Decoding =>
    LET g == PrimaryGroup(Stripped(s))
        p == FirstInvalid(g)
    IN  (/\ Len(g) % 3 = 0
         /\ p < Len(g)
         /\ \A k \in 0..((p \div 3) - 1) : ValueOf(TripletAt(g, k)) <= 65535)
        => (err = ErrInvalidCharacter(g[p + 1], p) /\ out = <<>>)

\* Whitespace first, then a triplet with 'A' in its middle: index 1 of the
\* stripped sequence, index 2 of the text.
InvalidCharacterWitness ==
  /\ call = "Decode"
  /\ Len(Runes(s)) = 4
  /\ Runes(s)[1] \in Whitespace
  /\ Runes(s)[3] = 65
  /\ err = ErrInvalidCharacter(65, 1)

\* The triplets of the primary group g before triplet k are all valid.
ValidBefore(g, k) == \A j \in 0..(k - 1) : ValidTriplet(TripletAt(g, j))

\* C7: a text with a triplet of three Primary code points whose value
\* d0*48*48 + d1*48 + d2 is above 65535 never decodes to bytes; when the
\* primary group's length is a multiple of 3 and the triplets before it are
\* valid the error is value-out-of-range; and when every triplet is Primary
\* with a value of at most 65535, each yields the bytes (v >> 8) & 0xFF and
\* v & 0xFF.
ValueOutOfRange ==
  Decoding =>
    LET g == PrimaryGroup(Stripped(s))
        n == Len(g) \div 3
        over(k) == AllPrimary(TripletAt(g, k)) /\ ValueOf(TripletAt(g, k)) > 65535
    IN  /\ (\E k \in 0..(n - 1) : over(k)) => (err # NoError /\ out = <<>>)
        /\ \A k \in 0..(n - 1) :
             (Len(g) % 3 = 0 /\ over(k) /\ ValidBefore(g, k))
             => err = ErrValueOutOfRange(ValueOf(TripletAt(g, k)), 3 * k)
        /\ (Len(g) % 3 = 0 /\ ValidBefore(g, n))
           => /\ err = NoError
              /\ \A k \in 0..(n - 1) :
                   LET v == ValueOf(TripletAt(g, k))
                   IN  /\ out[2 * k + 1] = (v \div 256) % 256
                       /\ out[2 * k + 2] = v % 256

\* The triplet of value 65535 decoded, then the triplet of value 65536.
ValueOutOfRangeWitness ==
  /\ call = "Decode"
  /\ Stripped(s) = <<Primary(28), Primary(21), Primary(15),
                     Primary(28), Primary(21), Primary(16)>>
  /\ err = ErrValueOutOfRange(65536, 3)

\* C8: when the whitespace-stripped sequence ends in a Padding code point
\* that no Padding code point precedes, that code point counts in the
\* primary group and Decode returns an error and no bytes.
MalformedPadding ==
  Decoding =>
    LET w == Stripped(s)
    IN  (/\ Len(w) >= 1
         /\ w[Len(w)] \in PaddingSet
         /\ (Len(w) >= 2 => w[Len(w) - 1] \notin PaddingSet))
        => /\ err # NoError
           /\ out = <<>>
           /\ Len(w) % 3 # 0 => err = ErrInvalidLength(Len(w))
           /\ Len(w) % 3 = 0 => err.kind \in {"InvalidCharacter", "ValueOutOfRange"}

\* A valid triplet, a Primary code point and one Padding code point.
MalformedPaddingWitness ==
  /\ call = "Decode"
  /\ Len(Stripped(s)) = 5
  /\ ValidTriplet(SubSeq(Stripped(s), 1, 3))
  /\ Stripped(s)[4] \in PrimarySet
  /\ Stripped(s)[5] \in PaddingSet
  /\ err = ErrInvalidLength(5)

\* C9: an error comes with no bytes; bytes come only with a nil error.
AllOrNothing == Decoding => (err # NoError => out = <<>>)

\* A first triplet that decodes, then a failure in the second.
AllOrNothingWitness ==
  /\ call = "Decode"
  /\ Len(Stripped(s)) = 6
  /\ ValidTriplet(SubSeq(Stripped(s), 1, 3))
  /\ err.kind = "InvalidCharacter"
  /\ err.pos = 5
  /\ out = <<>>

\* C10: once init has run, and through every call, the Primary Alphabet is
\* the 48 distinct code points U+0E01..U+0E2F, U+0E3F in that order, the
\* Padding Alphabet the 16 distinct code points U+1A00 + index, no code
\* point is in both, and the reverse index maps each Primary code point to
\* its index and nothing else.
AlphabetInvariant ==
  pc = "ready" =>
    LET thai == {ThaiAlphabet[i] : i \in DOMAIN ThaiAlphabet}
        buginese == {BugineseAlphabet[i] : i \in DOMAIN BugineseAlphabet}
    IN  /\ DOMAIN ThaiAlphabet = 0..47
        /\ \A i \in 0..47 : ThaiAlphabet[i] = Primary(i)
        /\ Cardinality(thai) = 48
        /\ DOMAIN BugineseAlphabet = 0..15
        /\ \A i \in 0..15 : BugineseAlphabet[i] = Padding(i)
        /\ Cardinality(buginese) = 16
        /\ thai \cap buginese = {}
        /\ DOMAIN thaiIndex = thai
        /\ \A i \in 0..47 : thaiIndex[ThaiAlphabet[i]] = i

\* The tables after an Encode call and a Decode call on its result.
AlphabetInvariantWitness ==
  /\ pc = "ready"
  /\ call = "Pipe"
  /\ Len(data) = 4
  /\ ThaiAlphabet[47] = 3647
  /\ thaiIndex[3647] = 47

\* The bytes of a text other than the whitespace bytes.
StrippedText(str) == SelectSeq(str, LAMBDA b : b \notin Whitespace)

\* Zero or more triplets of Primary code points, each of value at most
\* 65535, then no Padding code point or exactly two.
Canonical(w) ==
  \E np \in {0, 2} :
    /\ Len(w) >= np
    /\ (Len(w) - np) % 3 = 0
    /\ \A i \in (Len(w) - np + 1)..Len(w) : w[i] \in PaddingSet
    /\ \A k \in 0..(((Len(w) - np) \div 3) - 1) : ValidTriplet(TripletAt(w, k))

\* C11: when Decode succeeds on a text, encoding the bytes it returned gives
\* the text with its whitespace removed; Decode succeeds exactly on the
\* texts whose whitespace-free form is zero or more Primary triplets of
\* value at most 65535 followed by zero or two Padding code points; and a
\* text that decodes to the bytes another text was encoded from equals that
\* text up to whitespace.
CanonicalAcceptance ==
  Decoding =>
    /\ err = NoError => Encode(out) = StrippedText(s)
    /\ err = NoError <=> Canonical(Stripped(s))
    /\ (call \in {"Pipe", "Wrap"} /\ err = NoError /\ out = data)
       => StrippedText(s) = StrippedText(encoded)

\* The triplet of value 65535, a whitespace code point, a padding pair.
CanonicalAcceptanceWitness ==
  /\ call = "Decode"
  /\ Len(Runes(s)) = 6
  /\ Runes(s)[4] \in Whitespace
  /\ err = NoError
  /\ out = <<255, 255, 255>>
  /\ Encode(out) # s
  /\ Encode(out) = StrippedText(s)

====
